---- MODULE Spec2Model ----
(***************************************************************************)
(* Model of the stake-tracker API server (src/server.js, lines 1-436):     *)
(* the CoinGecko price cache (getUsdRate), the response normalizer         *)
(* (normalizeCashoutToUSD), the two ingestion routes and the read routes   *)
(* (account list, summary, paginated cashouts, leaderboard), the upserts   *)
(* inside the store and persistence calls that fail.                       *)
(***************************************************************************)
EXTENDS Integers, Sequences, FiniteSets, TLC

VARIABLES
    clock,        \* Date.now() / new Date(), in ms
    priceCache,   \* the Map priceCache: lower-case symbol -> entry, Null when no entry
    calls,        \* the getUsdRate / normalizeCashoutToUSD invocations made so far
    omitUndefined,\* whether the installed mongoose drops undefined keys of an update
    accounts,     \* the Account collection: id -> document, Null when absent
    cashouts,     \* the Cashout collection: id -> document, Null when absent
    reqs,         \* the ingestion requests received so far
    read          \* the read request being served, NoRead when there is none

vars == <<clock, priceCache, calls, omitUndefined, accounts, cashouts, reqs, read>>

----------------------------------------------------------------------------
(* Bounds of the model *)

MaxCalls == 2        \* getUsdRate / normalize invocations in one behaviour
MaxTicks == 2        \* how many times the clock advances
TickMs == 30000      \* the clock advances in steps of this many ms
MaxReqs == 2         \* ingestion requests in one behaviour

\* The ids the ingestion payloads name.
CashoutIds == {"c1"}
AccountIds == {"u1", "u2"}

(* Values of JavaScript that the model distinguishes *)

Null == << >>                 \* null / undefined / a field that is not there
Some(x) == << x >>            \* a value that is there
IsNumber(v) == v # Null       \* typeof v === "number", for an optional number
NullStr == "<null>"           \* a string-typed field holding null / undefined

----------------------------------------------------------------------------
(* Pricing helpers *)

PRICE_TTL_MS == 60000

\* const ttl = Number(PRICE_TTL_MS) || 60000
ttl == IF PRICE_TTL_MS # 0 THEN PRICE_TTL_MS ELSE 60000

\* The symbols the callers pass: record currencies and the summary's default.
Symbols == {"ltc", "LTC", "zzz", "constructor", ""}

\* String(symbol).toLowerCase()
ToLowerCase(s) ==
    CASE s = "LTC" -> "ltc"
      [] s = "BTC" -> "btc"
      [] s = "ZZZ" -> "zzz"
      [] OTHER -> s

CacheKeys == {ToLowerCase(s) : s \in Symbols \ {""}}

\* The own properties of the object literal COINGECKO_IDS.
COINGECKO_IDS ==
    [s \in {"ltc", "btc", "eth", "doge", "bch", "xrp", "usdt", "usdc"} |->
        CASE s = "ltc" -> "litecoin"
          [] s = "btc" -> "bitcoin"
          [] s = "eth" -> "ethereum"
          [] s = "doge" -> "dogecoin"
          [] s = "bch" -> "bitcoin-cash"
          [] s = "xrp" -> "ripple"
          [] s = "usdt" -> "tether"
          [] s = "usdc" -> "usd-coin"]

Supported(sym) == sym \in DOMAIN COINGECKO_IDS

\* The lower-case property names COINGECKO_IDS inherits from Object.prototype.
InheritedKeys == {"constructor", "__proto__"}

NoId == "<undefined>"

\* const id = COINGECKO_IDS[sym]: a bracket lookup on a plain object, which
\* also finds what the object inherits (a function or an object: truthy).
LookupId(sym) ==
    IF Supported(sym) THEN COINGECKO_IDS[sym]
    ELSE IF sym \in InheritedKeys THEN "<inherited " \o sym \o ">"
    ELSE NoId

\* if (!symbol) return null
Falsy(symbol) == symbol = "" \/ symbol = NullStr

IsFreshInclusive(cached, now) == cached # Null /\ now - cached[1].ts <= ttl

\* cached && now - cached.ts < ttl
IsFresh(cached, now) == cached # Null /\ now - cached[1].ts < ttl

CacheSetDropped(cache, sym, price, now) == cache

\* priceCache.set(sym, { price, ts: now })
CacheSet(cache, sym, price, now) ==
    [cache EXCEPT ![sym] = Some([price |-> price, ts |-> now])]

Prices == {10, 50}

\* What the provider's reply amounts to: a network error, a non-2xx status, a
\* body that is not JSON, a JSON body without a numeric usd, or a numeric usd.
Replies ==
    {[kind |-> k, usd |-> 0] : k \in {"neterr", "status", "malformed", "nousd"}}
    \cup {[kind |-> "ok", usd |-> p] : p \in Prices}

----------------------------------------------------------------------------
(* getUsdRate(symbol), lines 92-119 *)

GetUsdRateStartUncached(symbol, now, cache) ==
    IF Falsy(symbol) \/ LookupId(ToLowerCase(symbol)) = NoId
    THEN [fetch |-> FALSE, ret |-> Null, sym |-> NullStr, now |-> 0]
    ELSE [fetch |-> TRUE, ret |-> Null, sym |-> ToLowerCase(symbol), now |-> now]

\* Lines 93-107, up to the await of fetch: what the call does before it
\* suspends.  fetch = TRUE: an outbound request was issued and the call waits.
GetUsdRateStart(symbol, now, cache) ==
    IF Falsy(symbol)
    THEN [fetch |-> FALSE, ret |-> Null, sym |-> NullStr, now |-> 0]
    ELSE LET sym == ToLowerCase(symbol)
             id == LookupId(sym)
         IN  IF id = NoId
             THEN [fetch |-> FALSE, ret |-> Null, sym |-> sym, now |-> 0]
             ELSE IF IsFresh(cache[sym], now)
                  THEN [fetch |-> FALSE, ret |-> Some(cache[sym][1].price),
                        sym |-> sym, now |-> now]
                  ELSE [fetch |-> TRUE, ret |-> Null, sym |-> sym, now |-> now]

\* Lines 108-118: a thrown error and a body without a numeric usd both end in
\* return null; only a numeric usd is stored and returned.
ReplyPrice(reply) == IF reply.kind = "ok" THEN Some(reply.usd) ELSE Null

CacheAfterReplyEvicting(cache, sym, now, reply) ==
    IF IsNumber(ReplyPrice(reply))
    THEN CacheSet(cache, sym, ReplyPrice(reply)[1], now)
    ELSE [cache EXCEPT ![sym] = Null]

\* The cache after the reply to a call that read `now` when it started.
CacheAfterReply(cache, sym, now, reply) ==
    IF IsNumber(ReplyPrice(reply))
    THEN CacheSet(cache, sym, ReplyPrice(reply)[1], now)
    ELSE cache

----------------------------------------------------------------------------
(* normalizeCashoutToUSD(doc), lines 124-151 *)

\* Number(v || 0)
NumberOr0(v) == IF v = Null THEN 0 ELSE v[1]

NeedsRateAlways(doc) == TRUE

\* Line 136: amountUSD === undefined || payoutUSD === undefined
NeedsRate(doc) == ~IsNumber(doc.amountUSD) \/ ~IsNumber(doc.payoutUSD)

ResolveUsdRecomputed(stored, crypto, r) ==
    IF IsNumber(r) THEN Some(crypto * r[1])
    ELSE IF IsNumber(stored) THEN stored
    ELSE Some(0)

ResolveUsdAbsent(stored, crypto, r) ==
    IF IsNumber(stored) THEN stored
    ELSE IF IsNumber(r) THEN Some(crypto * r[1])
    ELSE Null

\* Lines 131-148 for one USD field: stored is the record's USD field, crypto
\* the coerced crypto value, r the rate getUsdRate returned (Null: no rate).
ResolveUsd(stored, crypto, r) ==
    IF IsNumber(stored) THEN stored
    ELSE IF IsNumber(r) THEN Some(crypto * r[1])
    ELSE Some(0)

\* The record normalizeCashoutToUSD returns.
NormalizeOut(doc, r) ==
    LET amountCrypto == NumberOr0(doc.amount)
        payoutCrypto == NumberOr0(doc.payout)
    IN  [amountCrypto |-> amountCrypto,
         payoutCrypto |-> payoutCrypto,
         amount |-> ResolveUsd(doc.amountUSD, amountCrypto, r),
         payout |-> ResolveUsd(doc.payoutUSD, payoutCrypto, r)]

\* The records handed to the normalizer: lean() documents of the Cashout model.
DocCurrencies == {"ltc", "zzz", NullStr}
Docs ==
    [currency : DocCurrencies, amount : {Some(2)}, payout : {Some(3)},
     amountUSD : {Null, Some(10)}, payoutUSD : {Null, Some(20)}]
    \cup {[currency |-> "ltc", amount |-> Null, payout |-> Null,
           amountUSD |-> Null, payoutUSD |-> Some(20)],
          [currency |-> "constructor", amount |-> Some(2), payout |-> Some(3),
           amountUSD |-> Null, payoutUSD |-> Null]}

NoDoc == [currency |-> NullStr, amount |-> Null, payout |-> Null,
          amountUSD |-> Null, payoutUSD |-> Null]
NoOut == [amountCrypto |-> 0, payoutCrypto |-> 0, amount |-> Null, payout |-> Null]

----------------------------------------------------------------------------
(* Actions of the pricing layer *)

\* A new invocation record.  kind "rate": getUsdRate called by a handler;
\* kind "normalize": normalizeCashoutToUSD(doc), which may call getUsdRate.
NewCall(kind, symbol, doc, looked, st) ==
    [kind |-> kind, symbol |-> symbol, doc |-> doc,
     pc |-> IF st.fetch THEN "fetching" ELSE "done",
     looked |-> looked,            \* getUsdRate was invoked
     sym |-> st.sym,               \* its local sym
     now |-> st.now,               \* its local now (0 when line 99 was not reached)
     fetched |-> st.fetch,         \* an outbound request was issued
     ret |-> st.ret,               \* what getUsdRate returned
     out |-> IF kind = "normalize" /\ ~st.fetch THEN NormalizeOut(doc, st.ret) ELSE NoOut]

NoLookup == [fetch |-> FALSE, ret |-> Null, sym |-> NullStr, now |-> 0]

\* await getUsdRate(symbol), as a handler calls it (line 373).
CallGetUsdRate(symbol) ==
    /\ Len(calls) < MaxCalls
    /\ calls' = Append(calls,
                  NewCall("rate", symbol, NoDoc, TRUE,
                          GetUsdRateStart(symbol, clock, priceCache)))
    /\ UNCHANGED <<clock, priceCache, omitUndefined, accounts, cashouts, reqs, read>>

\* normalizeCashoutToUSD(doc) up to its first suspension.
Normalize(doc) ==
    /\ Len(calls) < MaxCalls
    /\ calls' = Append(calls,
                  IF NeedsRate(doc)
                  THEN NewCall("normalize", doc.currency, doc, TRUE,
                               GetUsdRateStart(doc.currency, clock, priceCache))
                  ELSE NewCall("normalize", doc.currency, doc, FALSE, NoLookup))
    /\ UNCHANGED <<clock, priceCache, omitUndefined, accounts, cashouts, reqs, read>>

FetchResponseKeepsFirst(i, reply) ==
    /\ i \in 1..Len(calls)
    /\ calls[i].pc = "fetching"
    /\ LET c == calls[i]
           r == ReplyPrice(reply)
       IN  /\ priceCache' = IF priceCache[c.sym] # Null THEN priceCache
                             ELSE CacheAfterReply(priceCache, c.sym, c.now, reply)
           /\ calls' = [calls EXCEPT ![i] =
                          [c EXCEPT !.pc = "done", !.ret = r,
                                    !.out = IF c.kind = "normalize"
                                            THEN NormalizeOut(c.doc, r)
                                            ELSE NoOut]]
    /\ UNCHANGED <<clock, omitUndefined, accounts, cashouts, reqs, read>>

\* The provider's reply reaches a suspended call: lines 108-118, and for a
\* normalizer lines 138-150.
FetchResponse(i, reply) ==
    /\ i \in 1..Len(calls)
    /\ calls[i].pc = "fetching"
    /\ LET c == calls[i]
           r == ReplyPrice(reply)
       IN  /\ priceCache' = CacheAfterReply(priceCache, c.sym, c.now, reply)
           /\ calls' = [calls EXCEPT ![i] =
                          [c EXCEPT !.pc = "done", !.ret = r,
                                    !.out = IF c.kind = "normalize"
                                            THEN NormalizeOut(c.doc, r)
                                            ELSE NoOut]]
    /\ UNCHANGED <<clock, omitUndefined, accounts, cashouts, reqs, read>>

\* Time passes.
Tick ==
    /\ clock < MaxTicks * TickMs
    /\ clock' = clock + TickMs
    /\ UNCHANGED <<priceCache, calls, omitUndefined, accounts, cashouts, reqs, read>>

InitPrice ==
    /\ clock = 0
    /\ priceCache = [k \in CacheKeys |-> Null]
    /\ calls = << >>

InitStore ==
    /\ accounts = [a \in AccountIds |-> Null]
    /\ cashouts = [c \in CashoutIds |-> Null]

NoRead == [pc |-> "none"]

Init == InitPrice /\ InitStore /\ omitUndefined = TRUE /\ reqs = << >> /\ read = NoRead

\* getUsdRate alone, called with any symbol at any time.
NextPrice ==
    \/ \E s \in Symbols : CallGetUsdRate(s)
    \/ \E i \in 1..MaxCalls, reply \in Replies : FetchResponse(i, reply)
    \/ Tick

SpecPrice == Init /\ [][NextPrice]_vars

\* The normalizer, called with any record at any time.
NextNorm ==
    \/ \E d \in Docs : Normalize(d)
    \/ \E i \in 1..MaxCalls, reply \in Replies : FetchResponse(i, reply)
    \/ Tick

SpecNorm == Init /\ [][NextNorm]_vars

--------------------------------------------------------------------------------------------------------------------------------------
(* Request bodies of the ingestion routes *)

\* A JSON body is a function from the paths it holds to their values.
NonString == "<number>"      \* a truthy value that is no string, where the code expects one

\* b.path for a string-valued path; NullStr when the path is not there.
Str(b, k) == IF k \in DOMAIN b THEN b[k] ELSE NullStr
\* b.path for a number-valued path; Null when the path is not there.
Num(b, k) == IF k \in DOMAIN b THEN Some(b[k]) ELSE Null

\* { minesCashout, user } payloads.
NestedBodies ==
    { ("minesCashout.id" :> "c1") @@ ("user.id" :> "u1") @@ ("user.name" :> "Ann")
        @@ ("minesCashout.game" :> "Mines") @@ ("minesCashout.currency" :> "LTC")
        @@ ("minesCashout.payout" :> 6) @@ ("minesCashout.amount" :> 2)
        @@ ("minesCashout.payoutMultiplier" :> 3) @@ ("minesCashout.amountMultiplier" :> 1)
        @@ ("minesCashout.payoutUSD" :> 20) @@ ("minesCashout.amountUSD" :> 10)
        @@ ("minesCashout.updatedAt" :> "t1"),
      ("minesCashout.id" :> "c1") @@ ("user.id" :> "u2")
        @@ ("minesCashout.payout" :> 4) @@ ("minesCashout.payoutMultiplier" :> 2),
      ("user.id" :> "u1") @@ ("minesCashout.payoutUSD" :> 20),
      ("minesCashout.id" :> "c1") @@ ("user.id" :> "u1")
        @@ ("minesCashout.game" :> NonString) }

\* Flattened payloads.
FlatBodies ==
    { ("id" :> "c1") @@ ("accountId" :> "u1") @@ ("accountName" :> "Ann")
        @@ ("game" :> "Mines") @@ ("currency" :> "LTC")
        @@ ("payout" :> 6) @@ ("amount" :> 2)
        @@ ("payoutMultiplier" :> 3) @@ ("amountMultiplier" :> 1)
        @@ ("payoutUSD" :> 20) @@ ("amountUSD" :> 10) @@ ("updatedAt" :> "t1"),
      ("cashoutId" :> "c1") @@ ("user.id" :> "u2")
        @@ ("preview.payout" :> 4) @@ ("preview.payoutMultiplier" :> 2),
      ("accountId" :> "u1") @@ ("payoutUSD" :> 20),
      ("accountId" :> "u1") @@ ("game" :> NonString) }

Bodies == NestedBodies \cup FlatBodies

----------------------------------------------------------------------------
(* JavaScript operators the handlers use *)

\* !!s for a string-or-undefined value
Truthy(s) == s # NullStr /\ s # ""
\* a || b
Or(a, b) == IF Truthy(a) THEN a ELSE b
\* a ?? b for strings
OrNull(a, b) == IF a # NullStr THEN a ELSE b
\* a ?? b for optional numbers
Coalesce(a, b) == IF a # Null THEN a ELSE b

\* s.toLowerCase() for the strings of the payloads
Lower(s) ==
    CASE s = "Mines" -> "mines"
      [] OTHER -> ToLowerCase(s)

\* s.toLowerCase() raises a TypeError when s is not a string
LowerThrows(s) == s = NonString

----------------------------------------------------------------------------
(* POST /api/cashouts, lines 210-263 *)

\* Line 213: !minesCashout?.id || !user?.id
NestedInvalid(b) == ~Truthy(Str(b, "minesCashout.id")) \/ ~Truthy(Str(b, "user.id"))

\* Lines 231-232: x?.toLowerCase() on a value that is there and is no string
NestedThrows(b) ==
    \/ LowerThrows(Str(b, "minesCashout.game"))
    \/ LowerThrows(Str(b, "minesCashout.currency"))

\* x?.toLowerCase() ?? null
LowerOrNull(s) == IF s = NullStr THEN NullStr ELSE Lower(s)

\* Lines 226-253: the filter id and the $set document.
NestedSet(b, now) ==
    [id |-> Str(b, "minesCashout.id"),
     accountId |-> Str(b, "user.id"),
     accountName |-> OrNull(Str(b, "user.name"), NullStr),
     game |-> LowerOrNull(Str(b, "minesCashout.game")),
     currency |-> LowerOrNull(Str(b, "minesCashout.currency")),
     payout |-> NumberOr0(Num(b, "minesCashout.payout")),
     amount |-> NumberOr0(Num(b, "minesCashout.amount")),
     payoutMultiplier |-> NumberOr0(Num(b, "minesCashout.payoutMultiplier")),
     amountMultiplier |-> NumberOr0(Num(b, "minesCashout.amountMultiplier")),
     payoutUSD |-> Num(b, "minesCashout.payoutUSD"),
     amountUSD |-> Num(b, "minesCashout.amountUSD"),
     updatedAt |-> OrNull(Str(b, "minesCashout.updatedAt"), NullStr),
     rawJson |-> b,
     capturedAt |-> now]

----------------------------------------------------------------------------
(* POST /api/cashout, lines 266-327 *)

\* Lines 274-275: .toLowerCase() on the first truthy candidate
FlatThrows(b) ==
    \/ LowerThrows(Or(Str(b, "game"), Or(Str(b, "preview.game"), "mines")))
    \/ LowerThrows(Or(Str(b, "currency"), Or(Str(b, "preview.currency"), "")))

\* Lines 270-288 and 301-317: the object flat, with the capture time.
FlatSet(b, now) ==
    [id |-> Or(Str(b, "id"), Or(Str(b, "cashoutId"), Str(b, "preview.id"))),
     accountId |-> Or(Str(b, "accountId"), Or(Str(b, "user.id"), Str(b, "preview.user.id"))),
     accountName |-> LET n == Or(Str(b, "accountName"),
                                 Or(Str(b, "user.name"), Str(b, "preview.user.name")))
                     IN  IF Truthy(n) THEN n ELSE NullStr,
     game |-> Lower(Or(Str(b, "game"), Or(Str(b, "preview.game"), "mines"))),
     currency |-> Lower(Or(Str(b, "currency"), Or(Str(b, "preview.currency"), ""))),
     payout |-> Coalesce(Num(b, "payout"), Coalesce(Num(b, "preview.payout"), Some(0)))[1],
     amount |-> Coalesce(Num(b, "amount"), Coalesce(Num(b, "preview.amount"), Some(0)))[1],
     payoutMultiplier |->
        Coalesce(Num(b, "payoutMultiplier"),
                 Coalesce(Num(b, "preview.payoutMultiplier"), Some(0)))[1],
     amountMultiplier |->
        Coalesce(Num(b, "amountMultiplier"),
                 Coalesce(Num(b, "preview.amountMultiplier"), Some(0)))[1],
     payoutUSD |-> Num(b, "payoutUSD"),
     amountUSD |-> Num(b, "amountUSD"),
     updatedAt |-> LET u == Or(Str(b, "updatedAt"), Str(b, "preview.updatedAt"))
                   IN  IF Truthy(u) THEN u ELSE NullStr,
     rawJson |-> b,
     capturedAt |-> now]

\* Line 290: !flat.id || !flat.accountId
FlatInvalid(b) == ~Truthy(FlatSet(b, 0).id) \/ ~Truthy(FlatSet(b, 0).accountId)

----------------------------------------------------------------------------
(* The store: Model.updateOne(filter, update, { upsert: true }) *)

\* A key of $set whose value is undefined: mongoose 6 and later drop the key
\* (the stored value stays), mongoose 5 writes null.
SetOptional(old, new) ==
    IF new # Null THEN new ELSE IF omitUndefined THEN old ELSE Null

\* Cashout.updateOne({ id }, { $setOnInsert: { id }, $set: set }, { upsert: true })
UpsertCashoutBody(existing, set) ==
    LET old == IF existing = Null
               THEN [payoutUSD |-> Null, amountUSD |-> Null]
               ELSE [payoutUSD |-> existing[1].payoutUSD,
                     amountUSD |-> existing[1].amountUSD]
    IN  Some([id |-> set.id,
              accountId |-> set.accountId,
              game |-> set.game,
              currency |-> set.currency,
              payout |-> set.payout,
              amount |-> set.amount,
              payoutMultiplier |-> set.payoutMultiplier,
              amountMultiplier |-> set.amountMultiplier,
              payoutUSD |-> SetOptional(old.payoutUSD, set.payoutUSD),
              amountUSD |-> SetOptional(old.amountUSD, set.amountUSD),
              updatedAt |-> set.updatedAt,
              rawJson |-> set.rawJson,
              capturedAt |-> set.capturedAt])

UpsertCashoutKeepsCapture(existing, set) ==
    IF existing = Null THEN UpsertCashoutBody(existing, set)
    ELSE Some([UpsertCashoutBody(existing, set)[1] EXCEPT
                 !.capturedAt = existing[1].capturedAt])

UpsertCashout(existing, set) == UpsertCashoutBody(existing, set)

UpsertAccountSkipped(id, name) == Null

UpsertAccountUnnamed(id, name) == Some([id |-> id, name |-> NullStr])

\* Account.updateOne({ id }, { $set: { name } }, { upsert: true })
UpsertAccount(id, name) == Some([id |-> id, name |-> name])

----------------------------------------------------------------------------
(* Actions of the ingestion routes *)

\* What the handler has worked out of the body when it reaches its first await.
Parsed(route, b) ==
    IF route = "cashouts" THEN NestedSet(b, 0) ELSE FlatSet(b, 0)

\* The handler runs up to its first await: it answers 400 or 500, or sends the
\* account upsert.
Receive(route, b) ==
    /\ Len(reqs) < MaxReqs
    /\ LET invalid == IF route = "cashouts" THEN NestedInvalid(b) ELSE FlatInvalid(b)
           throws == route = "cashout" /\ FlatThrows(b)
           r == [route |-> route, body |-> b, capturedAt |-> 0,
                 \* history: every earlier request had been answered
                 alone |-> \A j \in 1..Len(reqs) : reqs[j].pc = "done"]
       IN  reqs' = Append(reqs,
                     IF throws THEN r @@ [pc |-> "done", status |-> 500]
                     ELSE IF invalid THEN r @@ [pc |-> "done", status |-> 400]
                     ELSE r @@ [pc |-> "account", status |-> 0])
    /\ UNCHANGED <<clock, priceCache, calls, omitUndefined, accounts, cashouts, read>>

\* The store applies the account upsert (lines 218-222, 294-298).
AccountUpsert(i) ==
    /\ i \in 1..Len(reqs)
    /\ reqs[i].pc = "account"
    /\ LET set == Parsed(reqs[i].route, reqs[i].body)
       IN  accounts' = [accounts EXCEPT ![set.accountId] =
                           UpsertAccount(set.accountId, set.accountName)]
    /\ reqs' = [reqs EXCEPT ![i].pc = "prepare"]
    /\ UNCHANGED <<clock, priceCache, calls, omitUndefined, cashouts, read>>

\* The handler resumes and builds the cashout update, reading the time
\* (lines 225-253, 300-317); building it can raise, which answers 500.
PrepareCashout(i) ==
    /\ i \in 1..Len(reqs)
    /\ reqs[i].pc = "prepare"
    /\ reqs' = IF reqs[i].route = "cashouts" /\ NestedThrows(reqs[i].body)
               THEN [reqs EXCEPT ![i].pc = "done", ![i].status = 500]
               ELSE [reqs EXCEPT ![i].pc = "cashout", ![i].capturedAt = clock]
    /\ UNCHANGED <<clock, priceCache, calls, omitUndefined, accounts, cashouts, read>>

\* The store applies the cashout upsert and the handler answers 200.
CashoutUpsert(i) ==
    /\ i \in 1..Len(reqs)
    /\ reqs[i].pc = "cashout"
    /\ LET set == IF reqs[i].route = "cashouts"
                  THEN NestedSet(reqs[i].body, reqs[i].capturedAt)
                  ELSE FlatSet(reqs[i].body, reqs[i].capturedAt)
       IN  cashouts' = [cashouts EXCEPT ![set.id] = UpsertCashout(cashouts[set.id], set)]
    /\ reqs' = [reqs EXCEPT ![i].pc = "done", ![i].status = 200]
    /\ UNCHANGED <<clock, priceCache, calls, omitUndefined, accounts, read>>

InitIngest ==
    /\ InitPrice /\ InitStore
    /\ omitUndefined \in BOOLEAN
    /\ reqs = << >>
    /\ read = NoRead

NextIngest ==
    \/ \E route \in {"cashouts", "cashout"}, b \in Bodies : Receive(route, b)
    \/ \E i \in 1..MaxReqs : AccountUpsert(i)
    \/ \E i \in 1..MaxReqs : PrepareCashout(i)
    \/ \E i \in 1..MaxReqs : CashoutUpsert(i)
    \/ Tick

SpecIngest == InitIngest /\ [][NextIngest]_vars

------------------
(* Properties of getUsdRate, checked under SpecPrice *)

\* The step in which a new invocation starts, and that invocation.
Starts == Len(calls') = Len(calls) + 1
Started == calls'[Len(calls')]

\* The cache holds a quote for key k that is inside the freshness window now.
FreshNow(k) == priceCache[k] # Null /\ clock - priceCache[k][1].ts < ttl

\* C1: getUsdRate serves a value from priceCache only when now - ts < ttl, and
\* then serves that entry's price; a call that is not served from the cache
\* either issues an outbound request or returns null.
C1_CacheServedOnlyWhenFresh ==
    [][Starts =>
         /\ (Started.pc = "done" /\ Started.ret # Null) =>
               /\ Started.sym \in CacheKeys
               /\ FreshNow(Started.sym)
               /\ Started.ret = Some(priceCache[Started.sym][1].price)
               /\ ~Started.fetched
         /\ (Started.pc = "done" /\ Started.ret = Null) => ~Started.fetched
         /\ Started.pc = "fetching" => (Started.fetched /\ Started.ret = Null)]_vars

\* C1 witness: a call was answered from the cache without a request.
C1_Witness ==
    \E i \in 1..Len(calls) :
        /\ calls[i].pc = "done" /\ ~calls[i].fetched /\ calls[i].ret # Null
        /\ priceCache[calls[i].sym] # Null

\* C2 as stated: two calls for a supported symbol that start within the
\* freshness window of each other issue at most one outbound request.
C2_OneRequestPerWindow ==
    \A i, j \in 1..Len(calls) :
        (/\ i < j
         /\ Supported(calls[i].sym) /\ calls[i].sym = calls[j].sym
         /\ calls[j].now - calls[i].now < ttl)
        => ~(calls[i].fetched /\ calls[j].fetched)

\* C2 as amended: a call that starts after an earlier call has stored its
\* quote, while that quote is the cached one and inside the window, issues no
\* request; a call for a supported symbol that starts with no quote or an
\* expired one issues a request.
C2_RequestIffNoFreshQuote ==
    [][Starts =>
         /\ \A i \in 1..Len(calls) :
               (/\ calls[i].pc = "done" /\ calls[i].fetched /\ calls[i].ret # Null
                /\ Supported(calls[i].sym)
                /\ ~Falsy(Started.symbol)
                /\ ToLowerCase(Started.symbol) = calls[i].sym
                /\ priceCache[calls[i].sym] =
                      Some([price |-> calls[i].ret[1], ts |-> calls[i].now])
                /\ clock - calls[i].now < ttl)
               => (~Started.fetched /\ Started.ret = calls[i].ret)
         /\ (/\ ~Falsy(Started.symbol)
             /\ Supported(ToLowerCase(Started.symbol))
             /\ ~FreshNow(ToLowerCase(Started.symbol)))
            => Started.fetched]_vars

\* C2 witness: both cases have happened: a second call inside the window of a
\* stored quote made no request, or a call after expiry made a new one.
C2_Witness ==
    \E i, j \in 1..Len(calls) :
        /\ i < j /\ calls[i].sym = calls[j].sym /\ Supported(calls[i].sym)
        /\ calls[i].fetched /\ calls[i].pc = "done" /\ calls[i].ret # Null
        /\ \/ (~calls[j].fetched /\ calls[j].now - calls[i].now < ttl)
           \/ (calls[j].fetched /\ calls[j].now - calls[i].now >= ttl)

\* C8 as stated: a symbol outside the supported mapping (or an empty one)
\* returns null and issues no outbound request.
C8_UnsupportedNoRequest ==
    \A i \in 1..Len(calls) :
        ~Supported(ToLowerCase(calls[i].symbol))
        => (~calls[i].fetched /\ calls[i].pc = "done" /\ calls[i].ret = Null)

\* C9: when the provider's reply is a failure, the call ends returning null
\* and the price cache is left exactly as it was.
C9_FailureLeavesCache ==
    [][\A i \in 1..Len(calls), reply \in Replies :
          (reply.kind # "ok" /\ FetchResponse(i, reply))
          => /\ priceCache' = priceCache
             /\ calls'[i].pc = "done"
             /\ calls'[i].ret = Null]_vars

\* C9 witness: a call found an expired quote, its request failed, it returned
\* null and the expired quote is still the cached one.
C9_Witness ==
    \E i \in 1..Len(calls) :
        /\ calls[i].pc = "done" /\ calls[i].fetched /\ calls[i].ret = Null
        /\ priceCache[calls[i].sym] # Null
        /\ calls[i].now - priceCache[calls[i].sym][1].ts >= ttl

\* C10 as stated: on success the stored quote carries the time at which it is
\* stored.
C10_TsIsStoreTime ==
    [][\A i \in 1..Len(calls), reply \in Replies :
          (reply.kind = "ok" /\ FetchResponse(i, reply))
          => priceCache'[calls[i].sym] =
                Some([price |-> reply.usd, ts |-> clock])]_vars

\* C10 as amended: on success the stored quote carries the time the call read
\* when it started (no later than the time of storing), and the call returns
\* the rate it stored.
C10_TsIsCallStart ==
    [][\A i \in 1..Len(calls), reply \in Replies :
          (reply.kind = "ok" /\ FetchResponse(i, reply))
          => /\ priceCache'[calls[i].sym] =
                   Some([price |-> reply.usd, ts |-> calls[i].now])
             /\ calls[i].now <= clock
             /\ calls'[i].ret = Some(reply.usd)]_vars

\* C10 witness: a call stored the rate it returns, after time had passed
\* since it started.
C10_Witness ==
    \E i \in 1..Len(calls) :
        /\ calls[i].pc = "done" /\ calls[i].fetched /\ calls[i].ret # Null
        /\ priceCache[calls[i].sym] =
              Some([price |-> calls[i].ret[1], ts |-> calls[i].now])
        /\ calls[i].now < clock

----------------------------------------------------------------------------
(* Properties of normalizeCashoutToUSD, checked under SpecNorm *)

\* C3: a record with numeric amountUSD and payoutUSD normalizes to exactly
\* those two values, with no rate lookup and no outbound request, whatever
\* the cache holds.
C3_StoredUsdWins ==
    \A i \in 1..Len(calls) :
        (/\ calls[i].kind = "normalize"
         /\ IsNumber(calls[i].doc.amountUSD) /\ IsNumber(calls[i].doc.payoutUSD))
        => /\ calls[i].pc = "done"
           /\ calls[i].out.amount = calls[i].doc.amountUSD
           /\ calls[i].out.payout = calls[i].doc.payoutUSD
           /\ ~calls[i].looked /\ ~calls[i].fetched

\* C3 witness: such a record was normalized while the cache held a quote for
\* its currency.
C3_Witness ==
    \E i \in 1..Len(calls) :
        /\ calls[i].kind = "normalize" /\ calls[i].pc = "done"
        /\ calls[i].doc.currency = "ltc"
        /\ calls[i].doc.amountUSD = Some(10) /\ calls[i].doc.payoutUSD = Some(20)
        /\ calls[i].out.amount = Some(10) /\ calls[i].out.payout = Some(20)
        /\ priceCache["ltc"] # Null

\* C4: with a rate r, each missing USD field is the crypto value times r and
\* each stored USD field is kept.
C4_MissingUsdIsCryptoTimesRate ==
    \A i \in 1..Len(calls) :
        (/\ calls[i].kind = "normalize" /\ calls[i].pc = "done"
         /\ calls[i].looked /\ IsNumber(calls[i].ret))
        => LET d == calls[i].doc
               r == calls[i].ret[1]
           IN  /\ calls[i].out.amount =
                    (IF IsNumber(d.amountUSD) THEN d.amountUSD
                     ELSE Some(NumberOr0(d.amount) * r))
               /\ calls[i].out.payout =
                    (IF IsNumber(d.payoutUSD) THEN d.payoutUSD
                     ELSE Some(NumberOr0(d.payout) * r))

\* C4 witness: currency ltc, crypto amount 2, rate 50 gave amount 100, next to
\* a stored payoutUSD that was kept.
C4_Witness ==
    \E i \in 1..Len(calls) :
        /\ calls[i].kind = "normalize" /\ calls[i].pc = "done"
        /\ calls[i].doc.currency = "ltc" /\ calls[i].doc.amount = Some(2)
        /\ calls[i].doc.amountUSD = Null /\ calls[i].doc.payoutUSD = Some(20)
        /\ calls[i].ret = Some(50)
        /\ calls[i].out.amount = Some(100) /\ calls[i].out.payout = Some(20)

\* C5: without a rate (a symbol with no provider id such as "zzz", a missing
\* currency, a failed fetch) the normalizer completes and every missing USD
\* field is 0; amount and payout of an output are never absent.
C5_NoRateGivesZero ==
    \A i \in 1..Len(calls) :
        calls[i].kind = "normalize" =>
            LET d == calls[i].doc IN
            /\ (NeedsRate(d) /\ (Falsy(d.currency) \/ LookupId(ToLowerCase(d.currency)) = NoId))
               => (calls[i].pc = "done" /\ calls[i].ret = Null)
            /\ (calls[i].pc = "done" /\ calls[i].looked /\ calls[i].ret = Null)
               => /\ calls[i].out.amount =
                       (IF IsNumber(d.amountUSD) THEN d.amountUSD ELSE Some(0))
                  /\ calls[i].out.payout =
                       (IF IsNumber(d.payoutUSD) THEN d.payoutUSD ELSE Some(0))
            /\ calls[i].pc = "done"
               => (calls[i].out.amount # Null /\ calls[i].out.payout # Null)

\* C5 witness: a record in "zzz" and a record whose fetch failed both came
\* out with amount 0 and payout 0.
C5_Witness ==
    \E i, j \in 1..Len(calls) :
        /\ calls[i].kind = "normalize" /\ calls[i].pc = "done"
        /\ calls[i].doc.currency = "zzz"
        /\ calls[i].doc.amountUSD = Null /\ calls[i].doc.payoutUSD = Null
        /\ calls[i].out.amount = Some(0) /\ calls[i].out.payout = Some(0)
        /\ calls[j].kind = "normalize" /\ calls[j].pc = "done"
        /\ calls[j].fetched /\ calls[j].ret = Null
        /\ calls[j].doc.amountUSD = Null /\ calls[j].doc.payoutUSD = Null
        /\ calls[j].out.amount = Some(0) /\ calls[j].out.payout = Some(0)

----------------------------------------------------------------------------
(* Properties of the ingestion routes, checked under SpecIngest *)

\* What request i asks the store to hold, once it has passed validation.
SetOf(i) ==
    IF reqs[i].route = "cashouts"
    THEN NestedSet(reqs[i].body, reqs[i].capturedAt)
    ELSE FlatSet(reqs[i].body, reqs[i].capturedAt)

\* The stored record carries the payload's value in every mutable field; a
\* USD value the payload omits is absent from the record.
Reflects(doc, set) ==
    /\ doc # Null
    /\ doc[1].id = set.id
    /\ doc[1].accountId = set.accountId
    /\ doc[1].game = set.game
    /\ doc[1].currency = set.currency
    /\ doc[1].payout = set.payout
    /\ doc[1].amount = set.amount
    /\ doc[1].payoutMultiplier = set.payoutMultiplier
    /\ doc[1].amountMultiplier = set.amountMultiplier
    /\ doc[1].payoutUSD = set.payoutUSD
    /\ doc[1].amountUSD = set.amountUSD
    /\ doc[1].rawJson = set.rawJson

\* C6 as stated: when an ingestion's cashout upsert is applied, the one
\* stored record of that id reflects that payload in every mutable field,
\* also when the payload omits a USD value an earlier payload supplied.
C6_SecondPayloadWins ==
    [][\A i \in 1..Len(reqs) :
          (reqs[i].pc = "cashout" /\ reqs'[i].pc = "done")
          => Reflects(cashouts'[SetOf(i).id], SetOf(i))]_vars

\* Whether request r lacks the cashout id or the account id.
Lacks(r) ==
    IF r.route = "cashouts" THEN NestedInvalid(r.body) ELSE FlatInvalid(r.body)

\* C7 as stated: a request that lacks the cashout id or the account id is
\* answered 400.
C7_MissingIdIs400 ==
    \A i \in 1..Len(reqs) :
        Lacks(reqs[i]) => (reqs[i].pc = "done" /\ reqs[i].status = 400)

\* C7, the part the code keeps: a request that lacks an id is answered at
\* once and changes neither collection nor the price cache.
C7_MissingIdMutatesNothing ==
    [][(Len(reqs') = Len(reqs) + 1 /\ Lacks(reqs'[Len(reqs')]))
          => /\ reqs'[Len(reqs')].pc = "done"
             /\ reqs'[Len(reqs')].status \in {400, 500}
             /\ UNCHANGED <<accounts, cashouts, priceCache>>]_vars

----------------------------------------------------------------------------
(* Capture times and accounts, checked under SpecIngest *)

\* The step in which the store applies the cashout upsert of request i.
CashoutApplied(i) == reqs[i].pc = "cashout" /\ reqs'[i].pc = "done"

\* The step in which the store applies the account upsert of request i.
AccountApplied(i) == reqs[i].pc = "account" /\ reqs'[i].pc = "prepare"

\* The stored capture time of id c does not go down in this step.
CaptureKept(c) ==
    cashouts[c] # Null =>
        /\ cashouts'[c] # Null
        /\ cashouts'[c][1].capturedAt >= cashouts[c][1].capturedAt

\* C17 as stated: every successful ingestion sets capturedAt to the time of
\* that call, so the stored capturedAt of an id never decreases over
\* successive ingestions.
C17_CapturedAtNeverDecreases ==
    [][\A c \in CashoutIds : CaptureKept(c)]_vars

\* C17 amended: every applied cashout upsert, insert or update, stores the
\* time its call read while building the update, which is not later than the
\* time of the write; an ingestion that started after all earlier ones were
\* answered never lowers the capture time of its id.
C17_CapturedAtIsCallTime ==
    [][\A i \in 1..Len(reqs) :
          CashoutApplied(i) =>
              /\ cashouts'[SetOf(i).id] # Null
              /\ cashouts'[SetOf(i).id][1].capturedAt = reqs[i].capturedAt
              /\ reqs[i].capturedAt <= clock
              /\ (reqs[i].alone /\ i = Len(reqs)) => CaptureKept(SetOf(i).id)]_vars

\* C17 witness: a second ingestion of an id, started after the first was
\* answered and at a later time, has replaced the capture time.
C17_Witness ==
    \E i, j \in 1..Len(reqs), c \in CashoutIds :
        /\ i < j
        /\ reqs[i].pc = "done" /\ reqs[i].status = 200
        /\ reqs[j].pc = "done" /\ reqs[j].status = 200 /\ reqs[j].alone
        /\ SetOf(i).id = c /\ SetOf(j).id = c
        /\ reqs[j].capturedAt > reqs[i].capturedAt
        /\ cashouts[c] # Null
        /\ cashouts[c][1].capturedAt = reqs[j].capturedAt

\* The name a payload carries: user.name on the nested route; on the flat
\* route the first non-empty of accountName, user.name, preview.user.name.
\* NullStr when it carries none.
PayloadName(r) ==
    IF r.route = "cashouts" THEN Str(r.body, "user.name")
    ELSE IF Truthy(Str(r.body, "accountName")) THEN Str(r.body, "accountName")
    ELSE IF Truthy(Str(r.body, "user.name")) THEN Str(r.body, "user.name")
    ELSE IF Truthy(Str(r.body, "preview.user.name")) THEN Str(r.body, "preview.user.name")
    ELSE NullStr

\* The account id a payload carries.
PayloadAccountId(r) ==
    IF r.route = "cashouts" THEN Str(r.body, "user.id")
    ELSE IF Truthy(Str(r.body, "accountId")) THEN Str(r.body, "accountId")
    ELSE IF Truthy(Str(r.body, "user.id")) THEN Str(r.body, "user.id")
    ELSE Str(r.body, "preview.user.id")

\* C20: an account record exists from the first valid ingestion that names
\* its id; every account upsert, first or later, stores the name of its
\* payload (null when the payload has none); only account upserts change the
\* collection, and no account id ever leaves it.
C20_AccountNameReplaced ==
    [][/\ \A a \in AccountIds : accounts[a] # Null => accounts'[a] # Null
       /\ \A i \in 1..Len(reqs) :
             AccountApplied(i) =>
                 /\ ~Lacks(reqs[i])
                 /\ accounts'[PayloadAccountId(reqs[i])] =
                       Some([id |-> PayloadAccountId(reqs[i]),
                             name |-> PayloadName(reqs[i])])
       /\ accounts' # accounts => \E i \in 1..Len(reqs) : AccountApplied(i)]_vars

\* C20 witness: an account that was given a name by one ingestion and whose
\* later ingestion carried none now has the name null.
C20_Witness ==
    \E i, j \in 1..Len(reqs), a \in AccountIds :
        /\ i < j
        /\ reqs[i].pc \notin {"account"} /\ ~Lacks(reqs[i])
        /\ reqs[j].pc \notin {"account"} /\ ~Lacks(reqs[j])
        /\ PayloadAccountId(reqs[i]) = a /\ PayloadAccountId(reqs[j]) = a
        /\ PayloadName(reqs[i]) = "Ann" /\ PayloadName(reqs[j]) = NullStr
        /\ accounts[a] = Some([id |-> a, name |-> NullStr])

----------------------------------------------------------------------------
(* The two routes given the same field values *)

\* Where each route reads a field from (lines 211 and 227-249; 270-288).
NestedPath ==
    [id |-> "minesCashout.id", accountId |-> "user.id", name |-> "user.name",
     game |-> "minesCashout.game", currency |-> "minesCashout.currency",
     payout |-> "minesCashout.payout", amount |-> "minesCashout.amount",
     payoutMultiplier |-> "minesCashout.payoutMultiplier",
     amountMultiplier |-> "minesCashout.amountMultiplier",
     payoutUSD |-> "minesCashout.payoutUSD", amountUSD |-> "minesCashout.amountUSD",
     updatedAt |-> "minesCashout.updatedAt"]

FlatPath ==
    [id |-> "id", accountId |-> "accountId", name |-> "accountName",
     game |-> "game", currency |-> "currency",
     payout |-> "payout", amount |-> "amount",
     payoutMultiplier |-> "payoutMultiplier",
     amountMultiplier |-> "amountMultiplier",
     payoutUSD |-> "payoutUSD", amountUSD |-> "amountUSD",
     updatedAt |-> "updatedAt"]

\* Field values a client sends: a field that is not in the domain is absent.
Payloads ==
    { ("id" :> "c1") @@ ("accountId" :> "u1") @@ ("name" :> "Ann")
        @@ ("game" :> "Mines") @@ ("currency" :> "LTC")
        @@ ("payout" :> 6) @@ ("amount" :> 2)
        @@ ("payoutMultiplier" :> 3) @@ ("amountMultiplier" :> 1)
        @@ ("payoutUSD" :> 20) @@ ("amountUSD" :> 10) @@ ("updatedAt" :> "t1"),
      ("id" :> "c1") @@ ("accountId" :> "u1") @@ ("name" :> "Ann")
        @@ ("currency" :> "LTC") @@ ("payout" :> 6),
      ("id" :> "c1") @@ ("accountId" :> "u2") @@ ("name" :> "Ann")
        @@ ("game" :> "Mines") @@ ("payout" :> 4),
      ("id" :> "c1") @@ ("accountId" :> "u1")
        @@ ("game" :> "Mines") @@ ("currency" :> "LTC"),
      ("id" :> "c1") @@ ("accountId" :> "u1") @@ ("name" :> "Ann")
        @@ ("game" :> "Mines") @@ ("currency" :> "LTC")
        @@ ("payout" :> 6) @@ ("payoutUSD" :> (0 - 5)) @@ ("amountUSD" :> (0 - 2)) }

\* The body that carries the field values p at the paths of a route.
BodyOf(path, p) ==
    [k \in {path[f] : f \in DOMAIN p} |-> p[CHOOSE f \in DOMAIN p : path[f] = k]]

NestedOf(p) == BodyOf(NestedPath, p)
FlatOf(p) == BodyOf(FlatPath, p)

NextShapes ==
    \/ \E p \in Payloads : Receive("cashouts", NestedOf(p))
    \/ \E p \in Payloads : Receive("cashout", FlatOf(p))
    \/ \E i \in 1..MaxReqs : AccountUpsert(i)
    \/ \E i \in 1..MaxReqs : PrepareCashout(i)
    \/ \E i \in 1..MaxReqs : CashoutUpsert(i)

SpecShapes == InitIngest /\ [][NextShapes]_vars

\* The $set the other route builds from the field values of request r.
OtherSet(r) ==
    LET p == CHOOSE q \in Payloads :
                 r.body = IF r.route = "cashouts" THEN NestedOf(q) ELSE FlatOf(q)
    IN  IF r.route = "cashouts" THEN FlatSet(FlatOf(p), r.capturedAt)
        ELSE NestedSet(NestedOf(p), r.capturedAt)

\* Two stored cashout records agree in every field but the raw payload.
SameCashout(d, e) ==
    /\ d # Null /\ e # Null
    /\ [d[1] EXCEPT !.rawJson = << >>] = [e[1] EXCEPT !.rawJson = << >>]

\* C16 as stated: whatever either route stores for a payload, the account
\* record and the cashout record, is what the other route stores for the same
\* field values, also when game, currency or the account name are absent.
C16_RoutesStoreTheSame ==
    [][\A i \in 1..Len(reqs) :
          /\ AccountApplied(i) =>
                accounts'[PayloadAccountId(reqs[i])] =
                    UpsertAccount(OtherSet(reqs[i]).accountId,
                                  OtherSet(reqs[i]).accountName)
          /\ CashoutApplied(i) =>
                SameCashout(cashouts'[SetOf(i).id],
                            UpsertCashout(cashouts[SetOf(i).id],
                                          OtherSet(reqs[i])))]_vars

\* C18 as stated: every stored record's amountUSD and payoutUSD are each
\* absent or a non-negative number.
C18_StoredUsdNonNegative ==
    \A c \in CashoutIds :
        cashouts[c] # Null =>
            /\ cashouts[c][1].payoutUSD # Null => cashouts[c][1].payoutUSD[1] >= 0
            /\ cashouts[c][1].amountUSD # Null => cashouts[c][1].amountUSD[1] >= 0

----------------------------------------------------------------------------
(* The read routes: query values and store operations, lines 336-431 *)

\* The values a page or size query parameter takes; NullStr: not given.
QueryValues == {NullStr, "0", "2", "500", "abc"}

\* parseInt(s, 10); Null stands for NaN.
ParseInt(s) ==
    CASE s = "0" -> Some(0)
      [] s = "1" -> Some(1)
      [] s = "2" -> Some(2)
      [] s = "10" -> Some(10)
      [] s = "50" -> Some(50)
      [] s = "500" -> Some(500)
      [] OTHER -> Null

\* Math.max(a, v) and Math.min(a, v): NaN when v is NaN.
MathMax(a, v) == IF v = Null THEN Null ELSE IF v[1] > a THEN v ELSE Some(a)
MathMin(a, v) == IF v = Null THEN Null ELSE IF v[1] < a THEN v ELSE Some(a)

\* Line 392: Math.max(1, parseInt(req.query.page ?? "1", 10))
PageOf(q) == MathMax(1, ParseInt(OrNull(q, "1")))

\* Lines 393 and 412: Math.min(cap, Math.max(1, parseInt(q ?? dflt, 10)))
SizeOf(q, cap, dflt) == MathMin(cap, MathMax(1, ParseInt(OrNull(q, dflt))))

\* Math.round(x * 100) / 100, amounts counted in thousandths of a dollar.
Round2(x) == ((x + 5) \div 10) * 10

\* The stored documents a filter matches.
Stored == {cashouts[c][1] : c \in {k \in DOMAIN cashouts : cashouts[k] # Null}}
OfAccount(id) == {d \in Stored : d.accountId = id}
NonNegative == {d \in Stored : d.payoutMultiplier >= 0}

\* { payoutMultiplier: { $gt: 0 } }
Positive == {d \in Stored : d.payoutMultiplier > 0}

RECURSIVE Perms(_)
Perms(S) ==
    IF S = {} THEN {<< >>}
    ELSE UNION {{<<x>> \o q : q \in Perms(S \ {x})} : x \in S}

\* .sort({ key: -1 }): the orders in which the store may return the documents
\* S, greatest key first; documents with equal keys come in any order.
SortedDesc(S, key) ==
    {q \in Perms(S) : \A i \in 1..(Len(q) - 1) : q[i][key] >= q[i + 1][key]}

LimitAll(q, skip, size) == q

\* .skip(skip).limit(size)
Limit(q, skip, size) ==
    SubSeq(q, skip + 1, IF skip + size < Len(q) THEN skip + size ELSE Len(q))

\* .lean(): the stored document as the normalizer reads it.
LeanDoc(d) ==
    [currency |-> d.currency, amount |-> Some(d.amount), payout |-> Some(d.payout),
     amountUSD |-> d.amountUSD, payoutUSD |-> d.payoutUSD]

\* normalizeCashoutToUSD(d) up to its first suspension (rowsRaw.map runs the
\* calls one after the other, none sees a reply to another).
StartNormalize(d, now, cache) ==
    IF NeedsRate(LeanDoc(d))
    THEN NewCall("normalize", d.currency, LeanDoc(d), TRUE,
                 GetUsdRateStart(d.currency, now, cache))
    ELSE NewCall("normalize", d.currency, LeanDoc(d), FALSE, NoLookup)

----------------------------------------------------------------------------
(* The summary's totals, lines 348-384 *)

RECURSIVE Sum(_)
\* The sum of the values of a function with a finite domain.
Sum(f) ==
    IF DOMAIN f = {} THEN 0
    ELSE LET x == CHOOSE y \in DOMAIN f : TRUE
         IN  f[x] + Sum([y \in DOMAIN f \ {x} |-> f[y]])

Max(S) == CHOOSE x \in S : \A y \in S : y <= x

\* Lines 348-362: the one group of the aggregation over the documents S, last
\* being the document $last takes its value from; Null when S is empty.
Aggregate(S, last) ==
    IF S = {} THEN Null
    ELSE Some([totalBets |-> Cardinality(S),
               maxMult |-> Max({d.payoutMultiplier : d \in S}),
               totalPayoutUSD |-> Sum([d \in S |-> NumberOr0(d.payoutUSD)]),
               totalAmountUSD |-> Sum([d \in S |-> NumberOr0(d.amountUSD)]),
               totalPayoutCrypto |-> Sum([d \in S |-> d.payout]),
               totalAmountCrypto |-> Sum([d \in S |-> d.amount]),
               lastCurrency |-> last.currency])

\* $last without a preceding $sort: the group's documents come in an order the
\* store does not define, so any document of the group can be the last.
LastChoices(S) == IF S = {} THEN {NoDoc} ELSE S

NoTotals == [totalBets |-> 0, maxMult |-> 0, totalPayout |-> 0, totalAmountUSD |-> 0]

\* Lines 364-369
TotalsOf(t) ==
    IF t = Null THEN NoTotals
    ELSE [totalBets |-> t[1].totalBets, maxMult |-> t[1].maxMult,
          totalPayout |-> t[1].totalPayoutUSD, totalAmountUSD |-> t[1].totalAmountUSD]

\* Line 372
NeedsFallback(t) ==
    t = Null \/ TotalsOf(t).totalPayout = 0 \/ TotalsOf(t).totalAmountUSD = 0

\* Line 373: t?.lastCurrency || "ltc"
FallbackSymbol(t) == IF t = Null THEN "ltc" ELSE Or(t[1].lastCurrency, "ltc")

BackfillUnit(totals, t, r) ==
    LET crypto == IF t = Null THEN [p |-> 0, a |-> 0]
                  ELSE [p |-> t[1].totalPayoutCrypto, a |-> t[1].totalAmountCrypto]
        rate == IF IsNumber(r) THEN r[1] ELSE 1
    IN  [totals EXCEPT
           !.totalAmountUSD = IF @ = 0 THEN crypto.a * rate ELSE @,
           !.totalPayout = IF @ = 0 THEN crypto.p * rate ELSE @]

\* Lines 374-379
Backfill(totals, t, r) ==
    LET crypto == IF t = Null THEN [p |-> 0, a |-> 0]
                  ELSE [p |-> t[1].totalPayoutCrypto, a |-> t[1].totalAmountCrypto]
    IN  IF IsNumber(r)
        THEN [totals EXCEPT
                !.totalAmountUSD = IF @ = 0 THEN crypto.a * r[1] ELSE @,
                !.totalPayout = IF @ = 0 THEN crypto.p * r[1] ELSE @]
        ELSE totals

\* Lines 383-384
Rounded(totals) ==
    [totals EXCEPT !.totalPayout = Round2(@), !.totalAmountUSD = Round2(@)]

----------------------------------------------------------------------------
(* Actions of the read routes *)

\* A read request that has reached its first await.
NewRead(kind, id, qpage, qsize) ==
    [pc |-> "find", kind |-> kind, id |-> id,
     qpage |-> qpage, qsize |-> qsize,      \* req.query.page, req.query.size
     page |-> IF kind = "cashouts" THEN PageOf(qpage) ELSE Some(1),
     size |-> CASE kind = "cashouts" -> SizeOf(qsize, 200, "50")
                [] kind = "leaderboard" -> SizeOf(qsize, 50, "10")
                [] OTHER -> Some(3),
     status |-> 0, errorBody |-> NullStr,
     total |-> 0, rowsRaw |-> << >>, rows |-> << >>,
     names |-> << >>, t |-> Null, totals |-> NoTotals]

Idle == read.pc \in {"none", "done"}

\* GET /api/accounts/:id/summary up to the await of find (lines 337-343).
SummaryStart(id) ==
    /\ Idle
    /\ read' = NewRead("summary", id, NullStr, NullStr)
    /\ calls' = << >>
    /\ UNCHANGED <<clock, priceCache, omitUndefined, accounts, cashouts, reqs>>

\* GET /api/accounts/:id/cashouts up to the await of find (lines 391-403).
CashoutsStart(id, page, size) ==
    /\ Idle
    /\ read' = NewRead("cashouts", id, page, size)
    /\ calls' = << >>
    /\ UNCHANGED <<clock, priceCache, omitUndefined, accounts, cashouts, reqs>>

\* GET /api/leaderboard up to the await of find (lines 412-416).
LeaderboardStart(size) ==
    /\ Idle
    /\ read' = NewRead("leaderboard", NullStr, NullStr, size)
    /\ calls' = << >>
    /\ UNCHANGED <<clock, priceCache, omitUndefined, accounts, cashouts, reqs>>

\* The orders in which the store may answer the find of request r.
Found(r) ==
    IF r.kind = "cashouts" THEN SortedDesc(OfAccount(r.id), "capturedAt")
    ELSE IF r.kind = "summary" THEN SortedDesc(OfAccount(r.id), "payoutMultiplier")
    ELSE SortedDesc(Positive, "payoutMultiplier")

\* The handler resumes with the documents raw and starts normalizing them
\* (lines 345, 405, 418).
Resumed(r, raw) ==
    /\ read' = [r EXCEPT !.pc = "rows", !.rowsRaw = raw,
                         !.total = IF r.kind = "cashouts"
                                   THEN Cardinality(OfAccount(r.id)) ELSE 0]
    /\ calls' = [i \in 1..Len(raw) |-> StartNormalize(raw[i], clock, priceCache)]

\* The store answers the find.  A skip or limit of NaN is outside what the
\* query API defines: the store rejects the query, or runs it without them.
Find ==
    /\ read.pc = "find"
    /\ IF read.page = Null \/ read.size = Null
       THEN \/ /\ read' = [read EXCEPT !.pc = "done", !.status = 500]
               /\ calls' = calls
            \/ \E q \in Found(read) : Resumed(read, q)
       ELSE \E q \in Found(read) :
               Resumed(read, Limit(q, (read.page[1] - 1) * read.size[1], read.size[1]))
    /\ UNCHANGED <<clock, priceCache, omitUndefined, accounts, cashouts, reqs>>

\* The indices of the calls cs in the order they finished when replies come
\* in the order of the requests: first the calls that never suspended.
CompletionOrder(cs) ==
    LET idx == [i \in 1..Len(cs) |-> i]
    IN  SelectSeq(idx, LAMBDA i : ~cs[i].fetched)
          \o SelectSeq(idx, LAMBDA i : cs[i].fetched)

RowsAsCompleted(raw, cs) ==
    [k \in 1..Len(raw) |->
        [doc |-> raw[CompletionOrder(cs)[k]], out |-> cs[CompletionOrder(cs)[k]].out]]

\* await Promise.all(raw.map(normalizeCashoutToUSD)): the array of the
\* results, each at the index of its promise.
Rows(raw, cs) == [i \in 1..Len(raw) |-> [doc |-> raw[i], out |-> cs[i].out]]

\* Promise.all resolves: every normalization has finished.  The paginated
\* route answers (line 407); the others go on to their next query.
RowsDone ==
    /\ read.pc = "rows"
    /\ \A i \in 1..Len(calls) : calls[i].pc = "done"
    /\ read' = [read EXCEPT
                  !.rows = Rows(read.rowsRaw, calls),
                  !.pc = CASE read.kind = "cashouts" -> "done"
                           [] read.kind = "summary" -> "aggregate"
                           [] OTHER -> "names",
                  !.status = IF read.kind = "cashouts" THEN 200 ELSE 0]
    /\ UNCHANGED <<clock, priceCache, calls, omitUndefined, accounts, cashouts, reqs>>

\* The store answers the aggregation (lines 348-369); the handler answers, or
\* asks for the fallback rate first (lines 372-373).
AggregateDone ==
    /\ read.pc = "aggregate"
    /\ \E last \in LastChoices(OfAccount(read.id)) :
          LET t == Aggregate(OfAccount(read.id), last)
          IN  IF NeedsFallback(t)
              THEN /\ read' = [read EXCEPT !.pc = "rate", !.t = t, !.totals = TotalsOf(t)]
                   /\ calls' = Append(calls,
                                 NewCall("rate", FallbackSymbol(t), NoDoc, TRUE,
                                         GetUsdRateStart(FallbackSymbol(t), clock,
                                                         priceCache)))
              ELSE /\ read' = [read EXCEPT !.pc = "done", !.status = 200, !.t = t,
                                           !.totals = Rounded(TotalsOf(t))]
                   /\ calls' = calls
    /\ UNCHANGED <<clock, priceCache, omitUndefined, accounts, cashouts, reqs>>

\* getUsdRate has returned to the summary handler (lines 374-386).
RateDone ==
    /\ read.pc = "rate"
    /\ calls[Len(calls)].pc = "done"
    /\ read' = [read EXCEPT
                  !.pc = "done", !.status = 200,
                  !.totals = Rounded(Backfill(read.totals, read.t, calls[Len(calls)].ret))]
    /\ UNCHANGED <<clock, priceCache, calls, omitUndefined, accounts, cashouts, reqs>>

\* Lines 421-428: a.name || a.id for the accounts found, r.accountId for the
\* others.
NameOf(accountId) ==
    IF accountId \in DOMAIN accounts /\ accounts[accountId] # Null
    THEN Or(accounts[accountId][1].name, accountId)
    ELSE accountId

\* The store answers the account lookup and the leaderboard answers.
NamesDone ==
    /\ read.pc = "names"
    /\ read' = [read EXCEPT
                  !.pc = "done", !.status = 200,
                  !.names = [i \in 1..Len(read.rows) |->
                                NameOf(read.rows[i].doc.accountId)]]
    /\ UNCHANGED <<clock, priceCache, calls, omitUndefined, accounts, cashouts, reqs>>

----------------------------------------------------------------------------
(* The stores the read routes are run against *)

ReadIds == {"c1", "c2", "c3", "c4", "c5"}

\* A stored cashout as the ingestion routes leave it.  USD amounts of the read
\* stores are counted in thousandths of a dollar.
Rec(id, acc, cur, payout, mult, pUSD, aUSD, cap) ==
    Some([id |-> id, accountId |-> acc, game |-> "mines", currency |-> cur,
          payout |-> payout, amount |-> 1,
          payoutMultiplier |-> mult, amountMultiplier |-> 1,
          payoutUSD |-> pUSD, amountUSD |-> aUSD,
          updatedAt |-> NullStr, rawJson |-> << >>, capturedAt |-> cap])

Stores ==
    { \* three plays in one currency, none with a stored USD value
      [accounts |-> [a \in AccountIds |->
                        IF a = "u1" THEN Some([id |-> "u1", name |-> "Ann"]) ELSE Null],
       cashouts |-> [c \in ReadIds |->
           CASE c = "c1" -> Rec("c1", "u1", "ltc", 1, 1, Null, Null, 1000)
             [] c = "c2" -> Rec("c2", "u1", "ltc", 2, 2, Null, Null, 2000)
             [] c = "c3" -> Rec("c3", "u1", "ltc", 3, 3, Null, Null, 3000)
             [] OTHER -> Null]],
      \* two accounts; c1 was ingested first and again last; equal
      \* multipliers, a multiplier of 0, partly stored USD values
      [accounts |-> [a \in AccountIds |->
                        IF a = "u1" THEN Some([id |-> "u1", name |-> "Ann"])
                        ELSE Some([id |-> "u2", name |-> NullStr])],
       cashouts |-> [c \in ReadIds |->
           CASE c = "c1" -> Rec("c1", "u1", "zzz", 2, 2, Some(1234), Null, 5000)
             [] c = "c2" -> Rec("c2", "u1", "ltc", 3, 2, Null, Null, 2000)
             [] c = "c3" -> Rec("c3", "u1", "ltc", 1, 0, Some(1111), Null, 3000)
             [] c = "c4" -> Rec("c4", "u1", "ltc", 4, 5, Some(20), Null, 4000)
             [] OTHER -> Rec("c5", "u2", "ltc", 6, 5, Some(4321), Some(2000), 1000)]],
      \* nothing ingested yet
      [accounts |-> [a \in AccountIds |-> Null],
       cashouts |-> [c \in ReadIds |-> Null]] }

InitRead ==
    /\ InitPrice
    /\ omitUndefined = TRUE
    /\ reqs = << >>
    /\ read = NoRead
    /\ \E st \in Stores : accounts = st.accounts /\ cashouts = st.cashouts

NextRead ==
    \/ \E id \in AccountIds : SummaryStart(id)
    \/ \E id \in AccountIds, page \in QueryValues, size \in QueryValues :
          CashoutsStart(id, page, size)
    \/ \E size \in QueryValues : LeaderboardStart(size)
    \/ Find
    \/ \E i \in 1..Cardinality(ReadIds), reply \in Replies : FetchResponse(i, reply)
    \/ RowsDone
    \/ AggregateDone
    \/ RateDone
    \/ NamesDone
    \/ Tick

SpecRead == InitRead /\ [][NextRead]_vars

----------------------------------------------------------------------------
(* Properties of the read routes, checked under SpecRead *)

\* The summary has asked for the fallback rate, or has answered after it did.
FellBack ==
    /\ read.pc \in {"rate", "done"}
    /\ read.kind = "summary"
    /\ read.status \in {0, 200}
    /\ NeedsFallback(read.t)

\* The call the summary made to getUsdRate.
RateCall == calls[Len(calls)]

\* The currency of the account's most recently captured record, "ltc" when
\* the account has no record.
LatestCurrency(id) ==
    IF OfAccount(id) = {} THEN "ltc"
    ELSE (CHOOSE d \in OfAccount(id) :
             \A e \in OfAccount(id) : e.capturedAt <= d.capturedAt).currency

\* C11 as stated: when an aggregated USD sum of the account is zero, that
\* total is the aggregated crypto sum times one current rate, the rate of the
\* currency of the account's most recently captured record, or of "ltc" when
\* there is none.
C11_FallbackUsesLatestCurrency ==
    FellBack =>
        /\ RateCall.kind = "rate"
        /\ RateCall.symbol = LatestCurrency(read.id)
        /\ (read.pc = "done" /\ IsNumber(RateCall.ret)) =>
              read.totals = Rounded(Backfill(TotalsOf(read.t), read.t, RateCall.ret))

\* C11, the part the code keeps: the fallback asks for one rate, that of the
\* currency of some record of the account ("ltc" when that currency is empty
\* or the account has no record), and each zero total becomes the crypto sum
\* times that rate.
C11_FallbackIsCryptoTimesOneRate ==
    FellBack =>
        /\ RateCall.kind = "rate"
        /\ RateCall.symbol \in
              {Or(d.currency, "ltc") : d \in LastChoices(OfAccount(read.id))}
        /\ (read.pc = "done" /\ IsNumber(RateCall.ret)) =>
              /\ TotalsOf(read.t).totalPayout = 0 =>
                    read.totals.totalPayout =
                       Round2(Sum([d \in OfAccount(read.id) |-> d.payout])
                                 * RateCall.ret[1])
              /\ TotalsOf(read.t).totalAmountUSD = 0 =>
                    read.totals.totalAmountUSD =
                       Round2(Sum([d \in OfAccount(read.id) |-> d.amount])
                                 * RateCall.ret[1])

\* The example of the specification: crypto payouts 1, 2, 3, no stored USD
\* value, rate 10: totalPayout is 60.
C11_Example ==
    /\ read.pc = "done" /\ read.kind = "summary" /\ read.status = 200
    /\ {d.payout : d \in OfAccount(read.id)} = {1, 2, 3}
    /\ RateCall.ret = Some(10)
    /\ read.totals.totalPayout = 60

\* The request has been answered and no rate fetch it made brought a rate.
AnsweredUnpriced ==
    /\ read.pc = "done"
    /\ \A i \in 1..Len(calls) : calls[i].fetched => calls[i].ret = Null

\* The stored USD sums of the account of the request.
StoredPayoutUSD == Sum([d \in OfAccount(read.id) |-> NumberOr0(d.payoutUSD)])
StoredAmountUSD == Sum([d \in OfAccount(read.id) |-> NumberOr0(d.amountUSD)])

UnpricedRow(i) ==
    LET d == read.rows[i].doc
        o == read.rows[i].out
    IN  /\ o.amount = IF IsNumber(d.amountUSD) THEN d.amountUSD ELSE Some(0)
        /\ o.payout = IF IsNumber(d.payoutUSD) THEN d.payoutUSD ELSE Some(0)

LeaderboardAnswered ==
    read.pc = "done" /\ read.kind = "leaderboard" /\ read.status = 200

\* The size the client asked for: the number its size parameter parses to,
\* 10 when it gave none; Null when the parameter is no number.
RequestedSize == ParseInt(OrNull(read.qsize, "10"))

Min(a, b) == IF a < b THEN a ELSE b

\* The stored records with a payout multiplier above 0.
AboveZero == {d \in Stored : d.payoutMultiplier > 0}

Paginating == read.pc # "none" /\ read.kind = "cashouts"

\* C14 as stated: for every page and size query value the effective page is
\* at least 1 and the effective size lies in 1..200, so the skip offset
\* (page - 1) * size is a non-negative integer.
C14_PageAndSizeClamped ==
    Paginating =>
        /\ read.page # Null /\ read.page[1] >= 1
        /\ read.size # Null /\ read.size[1] \in 1..200
        /\ (read.page[1] - 1) * read.size[1] >= 0

\* C14, the part the code keeps: a page and a size that parse to numbers are
\* clamped (size=500 becomes 200, page=0 becomes 1), one that is not given
\* becomes 1 and 50.
C14_NumericPageAndSizeClamped ==
    Paginating =>
        /\ ParseInt(OrNull(read.qpage, "1")) # Null =>
              (read.page # Null /\ read.page[1] >= 1)
        /\ ParseInt(OrNull(read.qsize, "50")) # Null =>
              (read.size # Null /\ read.size[1] \in 1..200)
        /\ read.qpage = "0" => read.page = Some(1)
        /\ read.qsize = "500" => read.size = Some(200)
        /\ read.qpage = NullStr => read.page = Some(1)
        /\ read.qsize = NullStr => read.size = Some(50)

\* Promise.all has resolved for the request being served.
Assembled == read.pc \in {"aggregate", "rate", "names", "done"} /\ read.status # 500

\* What normalizeCashoutToUSD returns for the stored document d when its
\* getUsdRate call, if it makes one, returns r.
Normalized(d, r) == NormalizeOut(LeanDoc(d), r)

\* C15: when the documents of one request are normalized together, row i of
\* the result is the normalization of document i, with the rate that the call
\* for document i received, in whatever order the fetches completed.
C15_RowsKeepInputOrder ==
    Assembled =>
        /\ Len(read.rows) = Len(read.rowsRaw)
        /\ \A i \in 1..Len(read.rows) :
              /\ read.rows[i].doc = read.rowsRaw[i]
              /\ calls[i].doc = LeanDoc(read.rowsRaw[i])
              /\ read.rows[i].out = Normalized(read.rowsRaw[i], calls[i].ret)

\* C15 witness: two rows of a page were priced by two fetches that returned
\* different rates, and the fetch for the earlier row completed last (its
\* quote is the one left in the cache); the rows are in the order of the
\* documents.
C15_Witness ==
    /\ read.pc = "done" /\ read.kind = "cashouts" /\ read.status = 200
    /\ \E i, j \in 1..Len(read.rows) :
          /\ i < j
          /\ calls[i].fetched /\ calls[j].fetched
          /\ \A k \in 1..Len(read.rows) : calls[k].fetched => k \in {i, j}
          /\ calls[i].ret = Some(10) /\ calls[j].ret = Some(50)
          /\ calls[i].sym = calls[j].sym
          /\ priceCache[calls[i].sym] = Some([price |-> 10, ts |-> calls[i].now])
          /\ read.rows[i].out.payout = Some(read.rowsRaw[i].payout * 10)
          /\ read.rows[j].out.payout = Some(read.rowsRaw[j].payout * 50)

\* The summary's top3 is there.
Top3Ready == Assembled /\ read.kind = "summary"

\* C19: top3 holds at most 3 records, all of the requested account, none
\* twice; no record of the account outside top3 has a multiplier above the
\* smallest inside; each row is the normalizer's output for its record.
C19_Top3 ==
    Top3Ready =>
        /\ Len(read.rows) <= 3
        /\ \A i \in 1..Len(read.rows) : read.rows[i].doc \in OfAccount(read.id)
        /\ \A i, j \in 1..Len(read.rows) :
              read.rows[i].doc = read.rows[j].doc => i = j
        /\ \A d \in OfAccount(read.id) :
              (\A i \in 1..Len(read.rows) : read.rows[i].doc # d) =>
                  /\ Len(read.rows) = 3
                  /\ \A i \in 1..Len(read.rows) :
                        d.payoutMultiplier <= read.rows[i].doc.payoutMultiplier
        /\ \A i \in 1..Len(read.rows) :
              read.rows[i].out = Normalized(read.rows[i].doc, calls[i].ret)

\* C19 witness: the summary of an account with four records, another account
\* having records too, shows three of them; the one left out has the smallest
\* multiplier.
C19_Witness ==
    /\ Top3Ready /\ read.pc = "done"
    /\ Cardinality(OfAccount(read.id)) = 4
    /\ Stored # OfAccount(read.id)
    /\ Len(read.rows) = 3
    /\ \E d \in OfAccount(read.id) :
          /\ \A i \in 1..3 : read.rows[i].doc # d
          /\ \A i \in 1..3 : d.payoutMultiplier < read.rows[i].doc.payoutMultiplier

----------------------------------------------------------------------------
(* Concurrent refreshes and the shape of the cache, checked under SpecPrice *)

\* The step in which the reply to call i arrives.
Completes(i) == i \in 1..Len(calls) /\ calls[i].pc = "fetching" /\ calls'[i].pc = "done"

\* Call j is another refresh of the symbol of call i.
OtherRefresh(i, j) ==
    j \in 1..Len(calls) /\ j # i /\ calls[j].fetched /\ calls[j].sym = calls[i].sym

\* The quote call i holds once it has returned a rate.
QuoteOf(c) == Some([price |-> c.ret[1], ts |-> c.now])

C25_CacheKeysSupported ==
    \A k \in DOMAIN priceCache :
        priceCache[k] # Null =>
            /\ Supported(k)
            /\ priceCache[k][1].price \in Prices
            /\ priceCache[k][1].ts \in 0..clock

\* C25, the part the code keeps: every key is the lower-case form of a symbol
\* for which the lookup in COINGECKO_IDS gave something, every entry is a
\* price the provider sent together with the start time of a call, and the
\* entry of a key is the quote of some call that fetched it; a lookup that
\* failed or returned no rate is not cached.
C25_CacheEntriesWellFormed ==
    \A k \in DOMAIN priceCache :
        priceCache[k] # Null =>
            /\ k = ToLowerCase(k) /\ LookupId(k) # NoId
            /\ priceCache[k][1].price \in Prices
            /\ priceCache[k][1].ts \in 0..clock
            /\ \E i \in 1..Len(calls) :
                  /\ calls[i].sym = k /\ calls[i].fetched /\ calls[i].pc = "done"
                  /\ IsNumber(calls[i].ret)
                  /\ priceCache[k] = QuoteOf(calls[i])

\* The timestamp of the entry of key k does not go down in this step, and the
\* entry stays.
TsKept(k) ==
    priceCache[k] # Null =>
        /\ priceCache'[k] # Null
        /\ priceCache'[k][1].ts >= priceCache[k][1].ts

\* C26 as stated: for each symbol the timestamp of its entry never decreases.
C26_TsNeverDecreases ==
    [][\A k \in DOMAIN priceCache : TsKept(k)]_vars

\* C26 amended: an entry is never removed, and its timestamp goes down only
\* when the reply to a call arrives after a call that started later has
\* stored its quote; the reply to a call that started no earlier than every
\* other refresh of its symbol never lowers it.
C26_TsDecreasesOnlyWhenOvertaken ==
    [][\A k \in DOMAIN priceCache :
          /\ priceCache[k] # Null => priceCache'[k] # Null
          /\ ~TsKept(k) =>
                \E i, j \in 1..Len(calls) :
                    /\ Completes(i) /\ OtherRefresh(i, j)
                    /\ calls[i].sym = k /\ calls[j].pc = "done"
                    /\ calls[j].now > calls[i].now
                    /\ priceCache[k] = QuoteOf(calls[j])
                    /\ priceCache'[k] = QuoteOf(calls'[i])
          /\ \A i \in 1..Len(calls) :
                (/\ Completes(i) /\ calls[i].sym = k
                 /\ \A j \in 1..Len(calls) :
                       OtherRefresh(i, j) => calls[j].now <= calls[i].now)
                => TsKept(k)]_vars

\* C26 witness: the first call started before the second and its reply came
\* after the second had stored its quote: the entry carries the older
\* timestamp again.
C26_Witness ==
    /\ Len(calls) >= 2
    /\ calls[1].pc = "done" /\ calls[2].pc = "done"
    /\ calls[1].fetched /\ calls[2].fetched
    /\ calls[1].sym = calls[2].sym
    /\ calls[1].now < calls[2].now
    /\ calls[1].ret = Some(10) /\ calls[2].ret = Some(50)
    /\ priceCache[calls[1].sym] = Some([price |-> 10, ts |-> calls[1].now])

----------------------------------------------------------------------------
(* Cashouts and their accounts, checked under SpecIngest *)

\* C24: in every state, also between the two upserts of a request, the
\* accountId of each stored cashout is the id of a stored account.
C24_CashoutHasAccount ==
    \A c \in DOMAIN cashouts :
        cashouts[c] # Null =>
            /\ cashouts[c][1].accountId \in DOMAIN accounts
            /\ accounts[cashouts[c][1].accountId] # Null
            /\ accounts[cashouts[c][1].accountId][1].id = cashouts[c][1].accountId

\* C24 witness: a cashout stored for one account is being ingested again for
\* another account; the request has upserted the new account and not yet the
\* cashout, which still names the first account.
C24_Witness ==
    \E i, j \in 1..Len(reqs) :
        /\ reqs[i].pc = "done" /\ reqs[i].status = 200
        /\ reqs[j].pc \in {"prepare", "cashout"}
        /\ SetOf(i).id = SetOf(j).id
        /\ SetOf(i).accountId # SetOf(j).accountId
        /\ cashouts[SetOf(i).id] # Null
        /\ cashouts[SetOf(i).id][1].accountId = SetOf(i).accountId
        /\ accounts[SetOf(i).accountId] # Null
        /\ accounts[SetOf(j).accountId] # Null

----------------------------------------------------------------------------
(* The upserts inside the store: collections as lists of documents *)

\* Under SpecUpsert the variables accounts and cashouts hold the documents of
\* the collection in the order of their insertion, and an upsert is the two
\* steps the store takes: it looks for a document that matches the filter and
\* updates it, or finds none and inserts one later; other operations can come
\* in between.

UniqueIdOff == FALSE

\* id: { type: String, unique: true, index: true } in both schemas (lines 40,
\* 48): the store refuses to insert a second document with an id.
UniqueId == TRUE

\* The positions of the documents of coll with this id.
Matches(coll, id) == {k \in 1..Len(coll) : coll[k].id = id}

First(K) == CHOOSE k \in K : \A j \in K : k <= j

\* updateOne on a match: the first matching document is replaced by doc.
UpdateFirst(coll, id, doc) == [coll EXCEPT ![First(Matches(coll, id))] = doc]

\* The stored document, Null when there is none.
Existing(coll, id) ==
    IF Matches(coll, id) = {} THEN Null ELSE Some(coll[First(Matches(coll, id))])

\* The outcome of the insert half of an upsert of request i into coll.  When
\* the unique index finds the id taken meanwhile, the store runs the upsert
\* again as an update or reports the duplicate key, which the handler's catch
\* answers with 500 (lines 259-262, 323-326).
InsertOutcomes(coll, id, doc, updated) ==
    IF UniqueId /\ Matches(coll, id) # {}
    THEN {[coll |-> UpdateFirst(coll, id, updated), ok |-> TRUE],
          [coll |-> coll, ok |-> FALSE]}
    ELSE {[coll |-> Append(coll, doc), ok |-> TRUE]}

\* The store looks for the account of request i (lines 218-222, 294-298).
AccountMatch(i) ==
    /\ i \in 1..Len(reqs)
    /\ reqs[i].pc = "account"
    /\ LET set == Parsed(reqs[i].route, reqs[i].body)
       IN  IF Matches(accounts, set.accountId) # {}
           THEN /\ accounts' = UpdateFirst(accounts, set.accountId,
                                  UpsertAccount(set.accountId, set.accountName)[1])
                /\ reqs' = [reqs EXCEPT ![i].pc = "prepare"]
           ELSE /\ accounts' = accounts
                /\ reqs' = [reqs EXCEPT ![i].pc = "account-insert"]
    /\ UNCHANGED <<clock, priceCache, calls, omitUndefined, cashouts, read>>

\* The store inserts the account it did not find.
AccountInsert(i) ==
    /\ i \in 1..Len(reqs)
    /\ reqs[i].pc = "account-insert"
    /\ LET set == Parsed(reqs[i].route, reqs[i].body)
           doc == UpsertAccount(set.accountId, set.accountName)[1]
       IN  \E o \in InsertOutcomes(accounts, set.accountId, doc, doc) :
              /\ accounts' = o.coll
              /\ reqs' = IF o.ok THEN [reqs EXCEPT ![i].pc = "prepare"]
                         ELSE [reqs EXCEPT ![i].pc = "done", ![i].status = 500]
    /\ UNCHANGED <<clock, priceCache, calls, omitUndefined, cashouts, read>>

\* The store looks for the cashout of request i (lines 225-256, 300-320).
CashoutMatch(i) ==
    /\ i \in 1..Len(reqs)
    /\ reqs[i].pc = "cashout"
    /\ IF Matches(cashouts, SetOf(i).id) # {}
       THEN /\ cashouts' = UpdateFirst(cashouts, SetOf(i).id,
                              UpsertCashout(Existing(cashouts, SetOf(i).id), SetOf(i))[1])
            /\ reqs' = [reqs EXCEPT ![i].pc = "done", ![i].status = 200]
       ELSE /\ cashouts' = cashouts
            /\ reqs' = [reqs EXCEPT ![i].pc = "cashout-insert"]
    /\ UNCHANGED <<clock, priceCache, calls, omitUndefined, accounts, read>>

\* The store inserts the cashout it did not find.
CashoutInsert(i) ==
    /\ i \in 1..Len(reqs)
    /\ reqs[i].pc = "cashout-insert"
    /\ \E o \in InsertOutcomes(cashouts, SetOf(i).id,
                               UpsertCashout(Null, SetOf(i))[1],
                               UpsertCashout(Existing(cashouts, SetOf(i).id),
                                             SetOf(i))[1]) :
          /\ cashouts' = o.coll
          /\ reqs' = IF o.ok THEN [reqs EXCEPT ![i].pc = "done", ![i].status = 200]
                     ELSE [reqs EXCEPT ![i].pc = "done", ![i].status = 500]
    /\ UNCHANGED <<clock, priceCache, calls, omitUndefined, accounts, read>>

\* The payloads of SpecUpsert: one cashout id, sent for two accounts.
UpsertPayloads ==
    {p \in Payloads : "updatedAt" \in DOMAIN p \/ p["accountId"] = "u2"}

InitUpsert ==
    /\ InitPrice
    /\ omitUndefined = TRUE
    /\ reqs = << >>
    /\ read = NoRead
    /\ accounts = << >>
    /\ cashouts = << >>

NextUpsert ==
    \/ \E p \in UpsertPayloads : Receive("cashouts", NestedOf(p))
    \/ \E p \in UpsertPayloads : Receive("cashout", FlatOf(p))
    \/ \E i \in 1..MaxReqs : AccountMatch(i)
    \/ \E i \in 1..MaxReqs : AccountInsert(i)
    \/ \E i \in 1..MaxReqs : PrepareCashout(i)
    \/ \E i \in 1..MaxReqs : CashoutMatch(i)
    \/ \E i \in 1..MaxReqs : CashoutInsert(i)

SpecUpsert == InitUpsert /\ [][NextUpsert]_vars

\* No two documents of the collection have the same id.
OnePerId(coll) ==
    \A k, l \in 1..Len(coll) : coll[k].id = coll[l].id => k = l

\* C23: after any interleaving of ingestion requests the store holds at most
\* one cashout per cashout id and at most one account per account id.
C23_OneRecordPerId == OnePerId(cashouts) /\ OnePerId(accounts)

\* C23 witness: two requests for one cashout id both found no document and
\* went on to insert; the first insert was done, the second was refused as a
\* duplicate, and the collection holds the one document.
C23_Witness ==
    \E i, j \in 1..Len(reqs) :
        /\ i # j
        /\ SetOf(i).id = SetOf(j).id
        /\ SetOf(i).accountId # SetOf(j).accountId
        /\ reqs[i].pc = "done" /\ reqs[i].status = 200
        /\ reqs[j].pc = "done" /\ reqs[j].status = 500
        /\ Cardinality(Matches(cashouts, SetOf(i).id)) = 1

----------------------------------------------------------------------------
(* Persistence calls that fail *)

\* What a caller gets when a handler fails.
ServerError == "{ error: 'server' }"     \* res.status(500).json(...), lines 261, 325
ErrorPage == "<default error page>"      \* the framework's own error handler
NoResponse == "<no response>"            \* nobody answers the request

\* The awaited account upsert rejects: the catch answers 500 (lines 259-262,
\* 323-326).
AccountUpsertFails(i) ==
    /\ i \in 1..Len(reqs)
    /\ reqs[i].pc = "account"
    /\ reqs' = [reqs EXCEPT ![i].pc = "done", ![i].status = 500]
    /\ UNCHANGED <<clock, priceCache, calls, omitUndefined, accounts, cashouts, read>>

\* The awaited cashout upsert rejects: the catch answers 500.
CashoutUpsertFails(i) ==
    /\ i \in 1..Len(reqs)
    /\ reqs[i].pc = "cashout"
    /\ reqs' = [reqs EXCEPT ![i].pc = "done", ![i].status = 500]
    /\ UNCHANGED <<clock, priceCache, calls, omitUndefined, accounts, cashouts, read>>

\* GET /api/accounts up to the await of find (lines 330-331).
AccountsStart ==
    /\ Idle
    /\ read' = [NewRead("accounts", NullStr, NullStr, NullStr) EXCEPT !.pc = "list"]
    /\ calls' = << >>
    /\ UNCHANGED <<clock, priceCache, omitUndefined, accounts, cashouts, reqs>>

\* The store answers with the accounts and the handler sends them (line 332).
AccountsDone ==
    /\ read.pc = "list"
    /\ \E q \in Perms({accounts[a][1] : a \in {k \in DOMAIN accounts : accounts[k] # Null}}) :
          read' = [read EXCEPT !.pc = "done", !.status = 200, !.rows = q]
    /\ UNCHANGED <<clock, priceCache, calls, omitUndefined, accounts, cashouts, reqs>>

\* A rejection inside a read handler: the handlers of lines 330-431 have no
\* try/catch and the application installs no error middleware, so the
\* rejected promise of the async handler is left to the framework: a
\* framework that does not watch the promise sends nothing, one that does
\* answers with its own error page.
Unhandled ==
    {[status |-> 0, body |-> NoResponse], [status |-> 500, body |-> ErrorPage]}

\* The store rejects the query a read handler awaits (lines 331, 340, 348,
\* 396, 413, 422).
QueryFails ==
    /\ read.pc \in {"list", "find", "aggregate", "names"}
    /\ \E o \in Unhandled :
          read' = [read EXCEPT !.pc = "done", !.status = o.status, !.errorBody = o.body]
    /\ UNCHANGED <<clock, priceCache, calls, omitUndefined, accounts, cashouts, reqs>>

\* Every route that touches the store, with a store that can fail.  A
\* behaviour serves ingestion requests or read requests.
NextFail ==
    \/ read.pc = "none" /\ \E route \in {"cashouts", "cashout"}, b \in Bodies : Receive(route, b)
    \/ \E i \in 1..MaxReqs : AccountUpsert(i)
    \/ \E i \in 1..MaxReqs : AccountUpsertFails(i)
    \/ \E i \in 1..MaxReqs : PrepareCashout(i)
    \/ \E i \in 1..MaxReqs : CashoutUpsert(i)
    \/ \E i \in 1..MaxReqs : CashoutUpsertFails(i)
    \/ reqs = << >> /\ AccountsStart
    \/ reqs = << >> /\ \E id \in AccountIds : SummaryStart(id)
    \/ reqs = << >> /\ \E id \in AccountIds, page \in QueryValues, size \in QueryValues :
                          CashoutsStart(id, page, size)
    \/ reqs = << >> /\ \E size \in QueryValues : LeaderboardStart(size)
    \/ AccountsDone
    \/ Find
    \/ QueryFails
    \/ \E i \in 1..Cardinality(ReadIds), reply \in Replies : FetchResponse(i, reply)
    \/ RowsDone
    \/ AggregateDone
    \/ RateDone
    \/ NamesDone

SpecFail == InitRead /\ [][NextFail]_vars

\* C21 as stated, for the read routes: when a persistence call of a request
\* fails, the caller receives HTTP 500 with the fixed error body.
C21_StoreFailureIs500 ==
    (read.pc = "done" /\ read.errorBody # NullStr) =>
        (read.status = 500 /\ read.errorBody = ServerError)

\* C21, the part the code keeps: an ingestion request whose account upsert or
\* cashout upsert fails is answered 500 (the handler's catch, with the fixed
\* body) and that upsert changes nothing; one answered 200 has had both
\* applied.
C21_IngestionFailureIs500 ==
    [][\A i \in 1..Len(reqs) :
          /\ (reqs[i].pc = "account" /\ reqs'[i].pc = "done") =>
                (reqs'[i].status = 500 /\ UNCHANGED <<accounts, cashouts>>)
          /\ (reqs[i].pc = "cashout" /\ reqs'[i].pc = "done") =>
                /\ reqs'[i].status \in {200, 500}
                /\ reqs'[i].status = 500 => UNCHANGED <<accounts, cashouts>>
                /\ reqs'[i].status = 200 =>
                      cashouts'[SetOf(i).id] =
                          UpsertCashout(cashouts[SetOf(i).id], SetOf(i))]_vars

====
